---- MODULE Spec2Model ----
(***************************************************************************)
(* Cache-aside recommendation and rating layer of                          *)
(* redis_movie_integration_complete.py: a Neo4j store (users, movies,      *)
(* RATED edges), a Redis cache (movie hashes and their search index,       *)
(* recommendation strings, per-user rating hash and rating list) and       *)
(* NumProcs concurrent runs of main(), each stepping through the menu      *)
(* handlers one database command at a time.                                *)
(*                                                                         *)
(* Ratings are counted in half stars (0.5 is 1, 5.0 is 10); averages are   *)
(* reduced fractions.  Time is abstracted: a key that carries a TTL may    *)
(* expire at any moment, a key without one never does.                     *)
(***************************************************************************)
EXTENDS Integers, Sequences, FiniteSets, TLC

\* ------------------------------------------------------------- bounds
NumProcs == 2
NumUsers == 2
NumMovies == 2
MaxOps == 5

\* -------------------------------------------------- program constants
T_rec == 600
T_ratings == 3600
MinRating == 1
MaxRating == 10
TopN == 5
TopFetchK == 20
DefaultK == 10
MinK == 1
MaxK == 10
UnknownYear == 0
SearchPage == 10
DefaultMaxResults == 10
MinMaxResults == 1
MaxMaxResults == 10

NoTTL == -1
\* A user of the imported data set who never logs in here.
SeedUser == NumUsers + 1

Procs == 1..NumProcs
LoginIds == 1..NumUsers
Movies == 1..NumMovies
UserIds == LoginIds \cup {SeedUser}

\* What the operator may type at a prompt: nothing, a number, or text that
\* int() and float() reject.
Blank == [kind |-> "blank"]
Junk == [kind |-> "junk"]
Typed(n) == [kind |-> "num", n |-> n]
KInputs == {Blank, Junk, Typed(MaxK + 1)}
NameInputs == {"", "ann"}
RatingInputs == {Junk} \cup {Typed(n) : n \in {MinRating - 1, MinRating, MaxRating, MaxRating + 1}}
ChoiceInputs == {Blank, Junk} \cup {Typed(n) : n \in 0..NumMovies}
\* A search string is the sequence of its words, a blank between any two.
SearchTerms == {<<>>, <<"star">>, <<"star", "wars">>, <<"Comedy">>}
MaxInputs == {Blank, Junk, Typed(MinMaxResults - 1), Typed(MinMaxResults), Typed(MaxMaxResults + 1)}

\* ------------------------------------------------------------ helpers
Min(a, b) == IF a <= b THEN a ELSE b

RECURSIVE GCD(_, _)
GCD(a, b) == IF b = 0 THEN a ELSE GCD(b, a % b)

\* A float that is the quotient of two naturals, kept reduced.
Frac(n, d) == [num |-> n \div GCD(n, d), den |-> d \div GCD(n, d)]
FracGeq(a, b) == a.num * b.den >= b.num * a.den

RECURSIVE SumRatings(_)
SumRatings(S) ==
    IF S = {} THEN 0
    ELSE LET e == CHOOSE x \in S : TRUE IN e.rating + SumRatings(S \ {e})

\* Python's None, Cypher's null.
None == [none |-> TRUE]

\* str(int) and int(str) on ids.
StrOf(n) == ToString(n)
IntOf(s) == CHOOSE n \in 0..(NumMovies + NumUsers + 1) : ToString(n) = s

\* redis-py writes a float as its repr; float() reads it back.
FloatRepr(x) == [repr |-> x]
FloatOf(s) == s.repr

\* json.dumps / json.loads; any other payload raises JSONDecodeError.
Dumps(v) == [json |-> v]
IsJson(s) == "json" \in DOMAIN s
Loads(s) == s.json

\* ------------------------------------------------------- Redis values
EmptyMap == [f \in {} |-> None]
\* A key that does not exist.  An empty hash is an absent key.
Absent == [present |-> FALSE]
StringKey(v, ttl) == [present |-> TRUE, val |-> v, ttl |-> ttl]
HashKey(fields, ttl) == [present |-> TRUE, fields |-> fields, ttl |-> ttl]

MapPut(h, f, v) == [x \in DOMAIN h \cup {f} |-> IF x = f THEN v ELSE h[x]]
MapMerge(h, m) == [x \in DOMAIN h \cup DOMAIN m |-> IF x \in DOMAIN m THEN m[x] ELSE h[x]]

\* HSET key field value [field value ...]: creates the key without a TTL,
\* keeps the fields it does not name and the TTL of an existing key.
HSet(key, m) ==
    IF key.present THEN HashKey(MapMerge(key.fields, m), key.ttl)
    ELSE HashKey(m, NoTTL)
\* EXPIRE key seconds: no effect on a missing key.
Expire(key, ttl) == IF key.present THEN [key EXCEPT !.ttl = ttl] ELSE key
\* HGETALL / HGET
HGetAll(key) == IF key.present THEN key.fields ELSE EmptyMap
HGet(key, f) == IF key.present /\ f \in DOMAIN key.fields THEN key.fields[f] ELSE None
\* GET
Get(key) == IF key.present THEN key.val ELSE None

\* Mutant of SetEx: SET with NX, an existing key is kept.
SetEx_NX(key, ttl, v) == IF key.present THEN key ELSE StringKey(v, ttl)

\* SETEX key seconds value: replaces whatever the key held.
SetEx(key, ttl, v) == StringKey(v, ttl)

\* ---------------------------------------------------------------- state
VARIABLES
    userNode,            \* Neo4j: userId -> NoNode | a User node and its name
    movieNodes,          \* Neo4j: the movieIds that have a Movie node
    edges,               \* Neo4j: the RATED relationships [user, movie, rating]
    movieHash,           \* Redis: movie:<id>, a hash
    recCache,            \* Redis: recs:user:<id>:k:<k>, a string with TTL
    ratingHash,          \* Redis: user:<id>:ratings, a hash       (mapping (a))
    ratingList,          \* Redis: user:<id>:ratings:list, a string   (list (b))
    index,               \* Redis: whether the RediSearch index idx:movie exists
    pc,                  \* where each run of main() stands
    user_id,             \* run_user_application: the logged-in user
    user_ratings,        \* run_user_application: the in-memory rating dict
    last_recommendations,\* run_user_application: the list shown last
    loc,                 \* the locals of the handler a run is inside
    conn,                \* main: the state of the Neo4j driver and the Redis client
    act,                 \* the step taken last and what it handed to its caller
    ops                  \* menu choices made so far

store == <<userNode, movieNodes, edges>>
cache == <<movieHash, recCache, ratingHash, ratingList, index>>
session == <<user_id, user_ratings, last_recommendations>>
vars == <<userNode, movieNodes, edges, movieHash, recCache, ratingHash, ratingList, index,
          pc, user_id, user_ratings, last_recommendations, loc, conn, act, ops>>

\* ------------------------------------------------ the imported data set
TitleOf(m) == [title |-> m]
NoTitle == [title |-> 0]
GenresOf(m) == IF m % 2 = 0 THEN <<"Comedy">> ELSE <<"Action", "Drama">>
YearOf(m) == IF m = NumMovies THEN None ELSE [year |-> 1990 + m]
SeedRating(m) == IF m % 2 = 0 THEN MaxRating ELSE 6
SeedEdges ==
    {[user |-> SeedUser, movie |-> m, rating |-> SeedRating(m)] : m \in Movies}
    \cup {[user |-> 1, movie |-> 1, rating |-> 8]}

\* A User node's name is null ({}) or one string.
NoNode == [exists |-> FALSE]
UserNode(name) == [exists |-> TRUE, name |-> name]
Null == {}

\* --------------------------------------------------------- Neo4j queries
RatedBy(E, u) == {e.movie : e \in {x \in E : x.user = u}}

\* query_top_k_recommendations_from_neo4j, steps 2-3: the other users who
\* share a rated movie with u.  LIMIT 50 keeps them all while fewer than 50
\* users exist.
Neighbours(E, u) ==
    {o \in {e.user : e \in E} \ {u} : RatedBy(E, o) \cap RatedBy(E, u) # {}}

\* Step 4: the neighbours' ratings of movies u has not rated.
CandidateRows(E, u) ==
    {e \in E : e.user \in Neighbours(E, u) /\ e.movie \notin RatedBy(E, u)}

\* Step 5: avg(r.rating) per candidate movie.
Predicted(E, u, m) ==
    LET rows == {e \in CandidateRows(E, u) : e.movie = m}
    IN  Frac(SumRatings(rows), Cardinality(rows))

Rec(E, u, m) == [movie_id |-> m, predicted_rating |-> Predicted(E, u, m)]

\* ORDER BY predicted DESC LIMIT $k: every list the engine may return (the
\* order of equal scores, and which of them the limit cuts, is the engine's).
TopKResults(E, users, u, k) ==
    LET cands == IF ~users[u].exists THEN {}
                 ELSE {e.movie : e \in CandidateRows(E, u)}
        n == Min(k, Cardinality(cands))
    IN  {[i \in 1..n |-> Rec(E, u, s[i])] :
           s \in {t \in [1..n -> cands] :
                    /\ \A i, j \in 1..n : i < j =>
                          /\ t[i] # t[j]
                          /\ FracGeq(Predicted(E, u, t[i]), Predicted(E, u, t[j]))
                    /\ \A m \in cands \ {t[i] : i \in 1..n} :
                          \A i \in 1..n : FracGeq(Predicted(E, u, t[i]), Predicted(E, u, m))}}

\* get_user_rated_movies: the user's rated movies, ORDER BY r.rating DESC, title.
RatedBefore(a, b) ==
    \/ a.rating > b.rating
    \/ a.rating = b.rating /\ a.title.title <= b.title.title

get_user_rated_movies(E, u) ==
    LET rows == {[movie_id |-> StrOf(e.movie), title |-> TitleOf(e.movie), rating |-> e.rating] :
                    e \in {x \in E : x.user = u}}
        n == Cardinality(rows)
    IN  CHOOSE s \in [1..n -> rows] :
            /\ \A i, j \in 1..n : i < j => s[i] # s[j] /\ RatedBefore(s[i], s[j])

\* Whether step 1's MATCH finds both nodes.
Matched(users, nodes, u, m) == users[u].exists /\ m \in nodes

\* Mutant of UpsertRating: CREATE instead of MERGE.
UpsertRating_Create(E, users, nodes, u, m, r) ==
    IF Matched(users, nodes, u, m)
    THEN E \cup {[user |-> u, movie |-> m, rating |-> r]}
    ELSE E

\* rate_movie step 1: MATCH (u), (m) MERGE (u)-[r:RATED]->(m) SET r.rating.
\* (r.ratedAt, which no query of the program reads, is left out.)
UpsertRating(E, users, nodes, u, m, r) ==
    IF Matched(users, nodes, u, m)
    THEN {e \in E : ~(e.user = u /\ e.movie = m)} \cup {[user |-> u, movie |-> m, rating |-> r]}
    ELSE E

\* Mutant of AvgRating: the movie filter is missing.
AvgRating_AllMovies(E, m) ==
    IF E = {} THEN None ELSE Frac(SumRatings(E), Cardinality(E))

\* rate_movie step 2: avg(r.rating) over the movie's RATED edges, null when
\* there is none.
AvgRating(E, m) ==
    LET rows == {e \in E : e.movie = m}
    IN  IF rows = {} THEN None ELSE Frac(SumRatings(rows), Cardinality(rows))

\* ------------------------------------------------------------ handlers
NoLoc == [ctx |-> "", u |-> 0, k |-> 0, saw |-> FALSE, nq |-> 0, nw |-> 0,
          recs |-> <<>>, rated_movies |-> <<>>, movie_id |-> "", rating_val |-> 0,
          new_avg |-> None, title |-> NoTitle, matched |-> FALSE, had |-> FALSE,
          failed |-> FALSE, steps |-> <<>>]

\* main, option 4: int() of the answer, 10 when it is empty or no number,
\* clamped to 1..10.
ClampK(kin) ==
    LET k == IF kin.kind = "num" THEN kin.n ELSE DefaultK
    IN  IF k < MinK THEN MinK ELSE IF k > MaxK THEN MaxK ELSE k

Ks == {ClampK(kin) : kin \in KInputs} \cup {TopFetchK}
RecKeys == LoginIds \X Ks

\* main, lines 947-948 and the finally block: what has been opened, and what
\* close() leaves of it.
NotOpened == [driver |-> "none", redis |-> "none"]
BothOpen == [driver |-> "open", redis |-> "open"]
CloseAll(c) == [f \in DOMAIN c |-> IF c[f] = "open" THEN "closed" ELSE c[f]]

InitData ==
    /\ userNode = [u \in UserIds |-> IF u = 1 \/ u = SeedUser THEN UserNode(Null) ELSE NoNode]
    /\ movieNodes = Movies
    /\ edges = SeedEdges
    /\ movieHash = [m \in Movies |-> Absent]
    /\ recCache = [key \in RecKeys |-> Absent]
    /\ ratingHash = [u \in LoginIds |-> Absent]
    /\ ratingList = [u \in LoginIds |-> Absent]
    /\ index = FALSE
    /\ user_id = [p \in Procs |-> 0]
    /\ user_ratings = [p \in Procs |-> EmptyMap]
    /\ last_recommendations = [p \in Procs |-> <<>>]
    /\ loc = [p \in Procs |-> NoLoc]
    /\ act = [p |-> 0, op |-> "init"]
    /\ ops = 0

\* Every run of main() stands at its menu, both connections open.
Init ==
    /\ InitData
    /\ pc = [p \in Procs |-> "main"]
    /\ conn = [p \in Procs |-> BothOpen]

\* Every run of main() is about to start.
InitStart ==
    /\ InitData
    /\ pc = [p \in Procs |-> "start"]
    /\ conn = [p \in Procs |-> NotOpened]

\* main, line 947: get_neo4j_driver.
Start_Driver(p) ==
    /\ pc[p] = "start"
    /\ conn' = [conn EXCEPT ![p].driver = "open"]
    /\ pc' = [pc EXCEPT ![p] = "start_redis"]
    /\ act' = [p |-> p, op |-> "driver"]
    /\ UNCHANGED <<store, cache, session, loc, ops>>

\* main, line 948: get_redis_client, the PING answered.
Start_Redis(p) ==
    /\ pc[p] = "start_redis"
    /\ conn' = [conn EXCEPT ![p].redis = "open"]
    /\ pc' = [pc EXCEPT ![p] = "main"]
    /\ act' = [p |-> p, op |-> "redis"]
    /\ UNCHANGED <<store, cache, session, loc, ops>>

\* main, line 948: the PING of get_redis_client raises.  The call stands
\* before main's try block, so the exception ends the program.
Start_RedisFail(p) ==
    /\ pc[p] = "start_redis"
    /\ pc' = [pc EXCEPT ![p] = "aborted"]
    /\ act' = [p |-> p, op |-> "aborted"]
    /\ UNCHANGED <<store, cache, session, loc, conn, ops>>

\* Mutant of cache_key: the key does not name k.
cache_key_WithoutK(u, k) == <<u, TopFetchK>>

\* get_recommendations_for_user, line 365: recs:user:<user_id>:k:<k>.
cache_key(u, k) == <<u, k>>

\* get_cached_user_ratings: HGETALL, every value through float().
get_cached_user_ratings(rh, u) ==
    LET data == HGetAll(rh[u]) IN [f \in DOMAIN data |-> FloatOf(data[f])]

\* Mutant of IsHit: a cached empty list counts as a miss.
IsHit_NonEmptyOnly(cached) == cached # None /\ cached # Dumps(<<>>)

\* get_recommendations_for_user, line 370: a cache entry is a hit.
IsHit(cached) == cached # None

\* display_top_5_recommendations: drop the movies of the rating dict, keep
\* the first five.
Unseen(all_recs, ur) == SelectSeq(all_recs, LAMBDA rec : StrOf(rec.movie_id) \notin DOMAIN ur)
Top5(all_recs, ur) ==
    LET unseen == Unseen(all_recs, ur) IN SubSeq(unseen, 1, Min(TopN, Len(unseen)))

\* The title of movie:<id> as the handlers read it, "(no title)" if missing.
TitleFromRedis(mh, m) ==
    LET t == HGet(mh[m], "title") IN IF t = None THEN NoTitle ELSE t

WithTitles(recs, mh) ==
    [i \in 1..Len(recs) |->
        [movie_id |-> recs[i].movie_id, predicted_rating |-> recs[i].predicted_rating,
         title |-> TitleFromRedis(mh, recs[i].movie_id)]]

\* get_recommendations_for_user returns `list` to the handler `ctx` that
\* called it; the handler runs to its end.
Return(p, ctx, u, k, list, saw, nq, nw) ==
    /\ loc' = [loc EXCEPT ![p] = NoLoc]
    /\ IF ctx = "main"
       THEN /\ pc' = [pc EXCEPT ![p] = "main"]
            /\ act' = [p |-> p, op |-> "show_recs", user |-> u, k |-> k, all_recs |-> list,
                       list |-> list, saw |-> saw, nq |-> nq, nw |-> nw]
            /\ UNCHANGED last_recommendations
       ELSE LET top_5 == IF list = <<>> THEN <<>>
                         ELSE WithTitles(Top5(list, user_ratings[p]), movieHash)
            IN  /\ pc' = [pc EXCEPT ![p] = "menu"]
                /\ last_recommendations' = [last_recommendations EXCEPT ![p] = top_5]
                /\ act' = [p |-> p, op |-> "top5", user |-> u, k |-> k, all_recs |-> list,
                           list |-> top_5, saw |-> saw, nq |-> nq, nw |-> nw]

\* get_recommendations_for_user, step 1: GET the key; a well-formed entry is
\* returned, anything else goes on to the query.
GetTopK(p, ctx, u, k) ==
    LET cached == Get(recCache[cache_key(u, k)])
    IN  IF IsHit(cached) /\ IsJson(cached)
        THEN Return(p, ctx, u, k, Loads(cached), TRUE, 0, 0)
        ELSE /\ pc' = [pc EXCEPT ![p] = "gtk_query"]
             /\ loc' = [loc EXCEPT ![p] = [NoLoc EXCEPT !.ctx = ctx, !.u = u, !.k = k,
                                                       !.saw = (cached # None)]]
             /\ act' = [p |-> p, op |-> "gtk_miss"]
             /\ UNCHANGED last_recommendations

\* Step 2: the Neo4j query.
GTK_Query(p) ==
    /\ pc[p] = "gtk_query"
    /\ \E recs \in TopKResults(edges, userNode, loc[p].u, loc[p].k) :
          loc' = [loc EXCEPT ![p].recs = recs, ![p].nq = @ + 1]
    /\ pc' = [pc EXCEPT ![p] = "gtk_setex"]
    /\ act' = [p |-> p, op |-> "gtk_query"]
    /\ UNCHANGED <<store, cache, session, ops>>
    /\ UNCHANGED conn

\* Step 3: SETEX the list, then return it.
GTK_Setex(p) ==
    /\ pc[p] = "gtk_setex"
    /\ recCache' = [recCache EXCEPT ![cache_key(loc[p].u, loc[p].k)] = SetEx(@, T_rec, Dumps(loc[p].recs))]
    /\ Return(p, loc[p].ctx, loc[p].u, loc[p].k, loc[p].recs, loc[p].saw, loc[p].nq, loc[p].nw + 1)
    /\ UNCHANGED <<store, movieHash, ratingHash, ratingList, user_id, user_ratings, ops, index>>
    /\ UNCHANGED conn

\* main, option 4: show the cached recommendations of any user id.
Main_Recs(p) ==
    /\ pc[p] = "main" /\ ops < MaxOps
    /\ ops' = ops + 1
    /\ \E u \in LoginIds, kin \in KInputs : GetTopK(p, "main", u, ClampK(kin))
    /\ UNCHANGED <<store, cache, user_id, user_ratings>>
    /\ UNCHANGED conn

\* load_movies_from_neo4j_into_redis: one HSET of movie_id, title, genres and
\* year per Movie node.
MovieFields(m) ==
    [f \in {"movie_id", "title", "genres", "year"} |->
        CASE f = "movie_id" -> [str |-> StrOf(m)]
          [] f = "title" -> TitleOf(m)
          [] f = "genres" -> [joined |-> GenresOf(m)]
          [] OTHER -> [str |-> IF YearOf(m) = None THEN StrOf(UnknownYear) ELSE StrOf(YearOf(m).year)]]

Main_Load(p) ==
    /\ pc[p] = "main" /\ ops < MaxOps
    /\ ops' = ops + 1
    /\ movieHash' = [m \in Movies |->
                        IF m \in movieNodes THEN HSet(movieHash[m], MovieFields(m))
                        ELSE movieHash[m]]
    /\ act' = [p |-> p, op |-> "load"]
    /\ UNCHANGED <<store, recCache, ratingHash, ratingList, pc, session, loc, index>>
    /\ UNCHANGED conn

\* main, option 5, and get_or_create_user's lookup: MATCH (u:User) RETURN u.name.
Main_App(p) ==
    /\ pc[p] = "main" /\ ops < MaxOps
    /\ ops' = ops + 1
    /\ \E u \in LoginIds :
          /\ user_id' = [user_id EXCEPT ![p] = u]
          /\ pc' = [pc EXCEPT ![p] =
                        IF ~userNode[u].exists THEN "user_merge"
                        ELSE IF userNode[u].name = Null THEN "user_setname"
                        ELSE "app_fetch"]
    /\ act' = [p |-> p, op |-> "lookup"]
    /\ UNCHANGED <<store, cache, user_ratings, last_recommendations, loc>>
    /\ UNCHANGED conn

\* The name typed at the prompt, User<id> when it is empty.
NameOr(name, u) == IF name = "" THEN "User" \o StrOf(u) ELSE name

\* get_or_create_user, case B: MATCH (u:User) SET u.name = $name.
User_SetName(p) ==
    /\ pc[p] = "user_setname"
    /\ \E name \in NameInputs :
          /\ userNode' = [userNode EXCEPT ![user_id[p]] =
                             IF @.exists THEN UserNode({NameOr(name, user_id[p])}) ELSE @]
          /\ act' = [p |-> p, op |-> "setname", user |-> user_id[p], name |-> NameOr(name, user_id[p])]
    /\ pc' = [pc EXCEPT ![p] = "app_fetch"]
    /\ UNCHANGED <<movieNodes, edges, cache, session, loc, ops>>
    /\ UNCHANGED conn

\* Mutant of MergeUser: SET instead of ON CREATE SET.
MergeUser_AlwaysSet(node, name) == UserNode({name})

\* MERGE (u:User {userId}) ON CREATE SET u.name = $name, one atomic statement
\* under the uniqueness constraint on :User(userId).
MergeUser(node, name) == IF node.exists THEN node ELSE UserNode({name})

\* get_or_create_user, no node found: the MERGE.
User_Merge(p) ==
    /\ pc[p] = "user_merge"
    /\ \E name \in NameInputs :
          /\ userNode' = [userNode EXCEPT ![user_id[p]] = MergeUser(@, NameOr(name, user_id[p]))]
          /\ act' = [p |-> p, op |-> "merge", user |-> user_id[p], name |-> NameOr(name, user_id[p])]
    /\ pc' = [pc EXCEPT ![p] = "app_fetch"]
    /\ UNCHANGED <<movieNodes, edges, cache, session, loc, ops>>
    /\ UNCHANGED conn

\* run_user_application, step 2: read the rated movies from Neo4j.
App_Fetch(p) ==
    /\ pc[p] = "app_fetch"
    /\ loc' = [loc EXCEPT ![p] = [NoLoc EXCEPT !.rated_movies = get_user_rated_movies(edges, user_id[p])]]
    /\ pc' = [pc EXCEPT ![p] = "cache_hash"]
    /\ act' = [p |-> p, op |-> "fetch"]
    /\ UNCHANGED <<store, cache, session, ops>>
    /\ UNCHANGED conn

\* cache_user_rated_movies: the mapping movie_id -> rating of the list.
RatingMapping(rated_movies) ==
    [f \in {rated_movies[i].movie_id : i \in 1..Len(rated_movies)} |->
        FloatRepr((CHOOSE x \in {rated_movies[i] : i \in 1..Len(rated_movies)} : x.movie_id = f).rating)]

\* Mutant of HashWrite: the hash of an empty list is left alone.
HashWrite_NoDelete(key, rated_movies) ==
    IF rated_movies # <<>> THEN HSet(key, RatingMapping(rated_movies)) ELSE key

\* cache_user_rated_movies: HSET the mapping, or DEL the hash of an empty list.
HashWrite(key, rated_movies) ==
    IF rated_movies # <<>> THEN HSet(key, RatingMapping(rated_movies)) ELSE Absent

Cache_Hash(p) ==
    /\ pc[p] = "cache_hash"
    /\ ratingHash' = [ratingHash EXCEPT ![user_id[p]] = HashWrite(@, loc[p].rated_movies)]
    /\ pc' = [pc EXCEPT ![p] = IF loc[p].rated_movies # <<>> THEN "cache_expire" ELSE "cache_list"]
    /\ loc' = [loc EXCEPT ![p].had = ratingHash[user_id[p]].present]
    /\ act' = [p |-> p, op |-> "cache_hash"]
    /\ UNCHANGED <<store, movieHash, recCache, ratingList, session, ops, index>>
    /\ UNCHANGED conn

\* cache_user_rated_movies: EXPIRE the hash.
Cache_Expire(p) ==
    /\ pc[p] = "cache_expire"
    /\ ratingHash' = [ratingHash EXCEPT ![user_id[p]] = Expire(@, T_ratings)]
    /\ pc' = [pc EXCEPT ![p] = "cache_list"]
    /\ act' = [p |-> p, op |-> "cache_expire"]
    /\ UNCHANGED <<store, movieHash, recCache, ratingList, session, loc, ops, index>>
    /\ UNCHANGED conn

\* cache_user_rated_movies: SET the JSON list with EX; LoadAndCache returns.
Cache_List(p) ==
    /\ pc[p] = "cache_list"
    /\ ratingList' = [ratingList EXCEPT ![user_id[p]] = StringKey(Dumps(loc[p].rated_movies), T_ratings)]
    /\ pc' = [pc EXCEPT ![p] = "app_load"]
    /\ act' = [p |-> p, op |-> "cached", user |-> user_id[p], rated_movies |-> loc[p].rated_movies,
               had |-> loc[p].had]
    /\ UNCHANGED <<store, movieHash, recCache, ratingHash, session, loc, ops, index>>
    /\ UNCHANGED conn

\* run_user_application: the rating dict from get_cached_user_ratings, an
\* empty list of recommendations, then the menu.
App_Load(p) ==
    /\ pc[p] = "app_load"
    /\ user_ratings' = [user_ratings EXCEPT ![p] = get_cached_user_ratings(ratingHash, user_id[p])]
    /\ last_recommendations' = [last_recommendations EXCEPT ![p] = <<>>]
    /\ loc' = [loc EXCEPT ![p] = NoLoc]
    /\ pc' = [pc EXCEPT ![p] = "menu"]
    /\ act' = [p |-> p, op |-> "menu"]
    /\ UNCHANGED <<store, cache, user_id, ops>>
    /\ UNCHANGED conn

\* Menu option 2: display_top_5_recommendations.
Menu_Top5(p) ==
    /\ pc[p] = "menu" /\ ops < MaxOps
    /\ ops' = ops + 1
    /\ GetTopK(p, "top5", user_id[p], TopFetchK)
    /\ UNCHANGED <<store, cache, user_id, user_ratings>>
    /\ UNCHANGED conn

\* Menu option 0.
Menu_Exit(p) ==
    /\ pc[p] = "menu" /\ ops < MaxOps
    /\ ops' = ops + 1
    /\ pc' = [pc EXCEPT ![p] = "main"]
    /\ act' = [p |-> p, op |-> "leave"]
    /\ UNCHANGED <<store, cache, session, loc>>
    /\ UNCHANGED conn

\* Mutant of ValidRating: the lower bound is missing.
ValidRating_NoLowerBound(r) == r <= MaxRating

\* rate_movie, line 831: the accepted ratings.
ValidRating(r) == MinRating <= r /\ r <= MaxRating

\* rate_movie, lines 800-817: a movie shown without a title gets the one
\* Redis holds now, and keeps it in the list.
TitleForRating(movie, mh) ==
    IF movie.title = NoTitle THEN TitleFromRedis(mh, movie.movie_id) ELSE movie.title

\* Mutant of RateNext: the projection is written before the average is read.
RateNext_ProjBeforeAvg(at, new_avg) ==
    CASE at = "upsert" -> "rate_proj"
      [] at = "rate_proj" -> "rate_avg"
      [] OTHER -> "rate_hash"

\* rate_movie, lines 835-871: the statement that follows each of its steps.
RateNext(at, new_avg) ==
    CASE at = "upsert" -> "rate_avg"
      [] at = "rate_avg" -> IF new_avg # None THEN "rate_proj" ELSE "rate_hash"
      [] OTHER -> "rate_hash"

\* Menu option 3: rate_movie up to and including step 1, the upsert of the
\* RATED edge.  Every refusal returns to the menu.
Menu_Rate(p) ==
    /\ pc[p] = "menu" /\ ops < MaxOps
    /\ ops' = ops + 1
    /\ \E choice \in ChoiceInputs, rin \in RatingInputs :
        LET recs == last_recommendations[p]
            idx == choice.n
            movie == recs[idx]
            title == TitleForRating(movie, movieHash)
            said == [p |-> p, op |-> "rate", user |-> user_id[p], choice |-> choice, rating_in |-> rin]
        IN  IF recs = <<>>
            THEN /\ act' = [said EXCEPT !.rating_in = Blank] @@ [result |-> "no_recs"]
                 /\ UNCHANGED <<store, cache, session, pc, loc>>
            ELSE IF choice.kind # "num" \/ idx < 1 \/ idx > Len(recs)
            THEN /\ act' = [said EXCEPT !.rating_in = Blank] @@ [result |-> "bad_choice"]
                 /\ UNCHANGED <<store, cache, session, pc, loc>>
            ELSE /\ last_recommendations' = [last_recommendations EXCEPT ![p][idx].title = title]
                 /\ IF rin.kind # "num" \/ ~ValidRating(rin.n)
                    THEN /\ act' = said @@ [result |-> "bad_rating", movie_id |-> StrOf(movie.movie_id)]
                         /\ UNCHANGED <<store, cache, user_id, user_ratings, pc, loc>>
                    ELSE /\ edges' = UpsertRating(edges, userNode, movieNodes, user_id[p],
                                                  IntOf(StrOf(movie.movie_id)), rin.n)
                         /\ loc' = [loc EXCEPT ![p] = [NoLoc EXCEPT !.movie_id = StrOf(movie.movie_id),
                                                                    !.rating_val = rin.n,
                                                                    !.title = title,
                                                                    !.matched = Matched(userNode, movieNodes, user_id[p],
                                                                                        IntOf(StrOf(movie.movie_id))),
                                                                    !.steps = <<"upsert">>]]
                         /\ pc' = [pc EXCEPT ![p] = RateNext("upsert", None)]
                         /\ act' = said @@ [result |-> "upsert", movie_id |-> StrOf(movie.movie_id)]
                         /\ UNCHANGED <<userNode, movieNodes, cache, user_id, user_ratings>>
    /\ UNCHANGED conn

\* rate_movie step 2: the average from Neo4j.
Rate_Avg(p) ==
    /\ pc[p] = "rate_avg"
    /\ LET new_avg == AvgRating(edges, IntOf(loc[p].movie_id))
       IN  /\ loc' = [loc EXCEPT ![p].new_avg = new_avg, ![p].steps = Append(@, "avg")]
           /\ pc' = [pc EXCEPT ![p] = RateNext("rate_avg", new_avg)]
    /\ act' = [p |-> p, op |-> "rate_avg"]
    /\ UNCHANGED <<store, cache, session, ops>>
    /\ UNCHANGED conn

\* rate_movie step 3: HSET movie:<id> avg_rating.
Rate_Proj(p) ==
    /\ pc[p] = "rate_proj"
    /\ movieHash' = [movieHash EXCEPT ![IntOf(loc[p].movie_id)] =
                        HSet(@, [f \in {"avg_rating"} |-> FloatRepr(loc[p].new_avg)])]
    /\ loc' = [loc EXCEPT ![p].steps = Append(@, "proj")]
    /\ pc' = [pc EXCEPT ![p] = RateNext("rate_proj", loc[p].new_avg)]
    /\ act' = [p |-> p, op |-> "rate_proj"]
    /\ UNCHANGED <<store, recCache, ratingHash, ratingList, session, ops, index>>
    /\ UNCHANGED conn

\* Mutant of RatingHashUpdate: the hash is replaced by the one new entry.
RatingHashUpdate_Rewrite(key, movie_id, rating_val) ==
    HashKey([f \in {movie_id} |-> FloatRepr(rating_val)], IF key.present THEN key.ttl ELSE NoTTL)

\* Mutant of RatingHashUpdate: the hash is not written.
RatingHashUpdate_Skipped(key, movie_id, rating_val) == key

\* rate_movie step 4: HSET user:<id>:ratings <movie_id> <rating>, the same
\* entry in the rating dict, and the confirmation.
RatingHashUpdate(key, movie_id, rating_val) ==
    HSet(key, [f \in {movie_id} |-> FloatRepr(rating_val)])

Rate_Hash(p) ==
    /\ pc[p] = "rate_hash"
    /\ ratingHash' = [ratingHash EXCEPT ![user_id[p]] =
                         RatingHashUpdate(@, loc[p].movie_id, loc[p].rating_val)]
    /\ user_ratings' = [user_ratings EXCEPT ![p] = MapPut(@, loc[p].movie_id, loc[p].rating_val)]
    /\ act' = [p |-> p, op |-> "rated", user |-> user_id[p], movie_id |-> loc[p].movie_id,
               rating |-> loc[p].rating_val, new_avg |-> loc[p].new_avg,
               matched |-> loc[p].matched, failed |-> loc[p].failed,
               steps |-> Append(loc[p].steps, "hash"),
               outcome |-> IF loc[p].new_avg # None THEN "new_average" ELSE "RecomputeFailed"]
    /\ loc' = [loc EXCEPT ![p] = NoLoc]
    /\ pc' = [pc EXCEPT ![p] = "menu"]
    /\ UNCHANGED <<store, movieHash, recCache, ratingList, user_id, last_recommendations, ops, index>>
    /\ UNCHANGED conn

\* main, option 0: leave the loop; the finally block closes both connections.
Main_Exit(p) ==
    /\ pc[p] = "main" /\ ops < MaxOps
    /\ ops' = ops + 1
    /\ pc' = [pc EXCEPT ![p] = "closed"]
    /\ act' = [p |-> p, op |-> "exit"]
    /\ UNCHANGED <<store, cache, session, loc>>
    /\ conn' = [conn EXCEPT ![p] = CloseAll(@)]

\* ------------------------------------------------------------- search
\* create_redis_search_index: FT.DROPINDEX, whose error on a missing index is
\* ignored, then FT.CREATE over the hashes named movie:*.
Main_Index(p) ==
    /\ pc[p] = "main" /\ ops < MaxOps
    /\ ops' = ops + 1
    /\ index' = TRUE
    /\ act' = [p |-> p, op |-> "index", dropped |-> index, failed |-> FALSE, outcome |-> "returned"]
    /\ UNCHANGED <<store, movieHash, recCache, ratingHash, ratingList, pc, session, loc>>
    /\ UNCHANGED conn

\* The search engine.  The words of a title as its tokenizer yields them.
TitleWords(t) ==
    IF t = NoTitle THEN {}
    ELSE IF t.title % 2 = 1 THEN {"star", "wars"} ELSE {"star", "trek"}

\* The words of the TEXT fields of one indexed hash.
DocWords(key, f) ==
    IF f \notin DOMAIN key.fields THEN {}
    ELSE IF f = "title" THEN TitleWords(key.fields[f])
    ELSE {key.fields[f].joined[i] : i \in 1..Len(key.fields[f].joined)}

\* A query that starts with @title: is matched against the title alone, any
\* other against every TEXT field; parentheses group, all words must occur.
Scoped(q) == q # <<>> /\ q[1] = "@title:"
QueryWords(q) == {q[i] : i \in 1..Len(q)} \ {"@title:", "(", ")"}
Matches(q, key) ==
    LET searched == IF Scoped(q) THEN DocWords(key, "title")
                    ELSE DocWords(key, "title") \cup DocWords(key, "genres")
    IN  QueryWords(q) \subseteq searched

Hits(q, mh) == {m \in DOMAIN mh : mh[m].present /\ Matches(q, mh[m])}

\* FT.SEARCH q LIMIT 0 num: the number of all hits and one page of them, in
\* the order the engine ranks them.
SearchResults(q, mh, num) ==
    LET hits == Hits(q, mh)
        n == Min(num, Cardinality(hits))
    IN  {[total |-> Cardinality(hits), docs |-> s] :
            s \in {t \in [1..n -> hits] : \A i, j \in 1..n : i < j => t[i] # t[j]}}

\* Mutant of ClampMax: the upper limit is missing.
ClampMax_NoUpper(min) ==
    LET n == IF min.kind = "num" THEN min.n ELSE DefaultMaxResults
    IN  IF n < MinMaxResults THEN MinMaxResults ELSE n

\* redis_fulltext_search_demo: int() of the answer, 10 when it is empty or
\* no number, clamped to 1..10.
ClampMax(min) ==
    LET n == IF min.kind = "num" THEN min.n ELSE DefaultMaxResults
    IN  IF n < MinMaxResults THEN MinMaxResults
        ELSE IF n > MaxMaxResults THEN MaxMaxResults ELSE n

\* The query string each of the two searches hands to the engine.
DemoQuery(term) == term
TitleQuery(term) ==
    IF Len(term) > 1 THEN <<"@title:", "(">> \o term \o <<")">>
    ELSE <<"@title:">> \o term

\* main, option 3: redis_fulltext_search_demo.  A search on a missing index
\* raises; the handler prints the error and returns.
Main_Demo(p) ==
    /\ pc[p] = "main" /\ ops < MaxOps
    /\ ops' = ops + 1
    /\ \E term \in SearchTerms, min \in MaxInputs :
        LET said == [p |-> p, op |-> "demo", term |-> term, max_in |-> min,
                     max_results |-> ClampMax(min), query_str |-> <<>>, total |-> 0, docs |-> <<>>]
        IN  IF term = <<>>
            THEN act' = said @@ [result |-> "empty"]
            ELSE IF ~index
            THEN act' = [said EXCEPT !.query_str = DemoQuery(term)] @@ [result |-> "error"]
            ELSE \E res \in SearchResults(DemoQuery(term), movieHash, ClampMax(min)) :
                    act' = [said EXCEPT !.query_str = DemoQuery(term), !.total = res.total,
                                        !.docs = res.docs]
                           @@ [result |-> IF res.total = 0 THEN "no_results" ELSE "shown"]
    /\ UNCHANGED <<store, cache, pc, session, loc>>
    /\ UNCHANGED conn

\* search_movies_with_user_context, lines 633-652: the id after "movie:",
\* whether the rating dict holds it, and the rating it holds.
UserView(m, ur) ==
    LET movie_id == StrOf(m)
    IN  [movie_id |-> movie_id, seen |-> movie_id \in DOMAIN ur,
         user_rating |-> IF movie_id \in DOMAIN ur THEN ur[movie_id] ELSE None]

\* Menu option 1: search_movies_with_user_context with the rating dict of
\* the session.
Menu_Search(p) ==
    /\ pc[p] = "menu" /\ ops < MaxOps
    /\ ops' = ops + 1
    /\ \E term \in SearchTerms :
        LET said == [p |-> p, op |-> "search", user |-> user_id[p], term |-> term,
                     query_str |-> <<>>, total |-> 0, docs |-> <<>>]
        IN  IF term = <<>>
            THEN act' = said @@ [result |-> "empty"]
            ELSE IF ~index
            THEN act' = [said EXCEPT !.query_str = TitleQuery(term)] @@ [result |-> "error"]
            ELSE \E res \in SearchResults(TitleQuery(term), movieHash, SearchPage) :
                    act' = [said EXCEPT !.query_str = TitleQuery(term), !.total = res.total,
                                        !.docs = IF res.total = 0 THEN <<>>
                                                 ELSE [i \in 1..Len(res.docs) |->
                                                          UserView(res.docs[i], user_ratings[p])]]
                           @@ [result |-> IF res.total = 0 THEN "no_match" ELSE "shown"]
    /\ UNCHANGED <<store, cache, pc, session, loc>>
    /\ UNCHANGED conn

\* ------------------------------------------------------------ Redis TTL
\* A key that carries a TTL expires.
Expire_Rec ==
    /\ \E key \in RecKeys :
          /\ recCache[key].present /\ recCache[key].ttl # NoTTL
          /\ recCache' = [recCache EXCEPT ![key] = Absent]
    /\ act' = [p |-> 0, op |-> "expire_rec"]
    /\ UNCHANGED <<store, movieHash, ratingHash, ratingList, pc, session, loc, ops, index>>
    /\ UNCHANGED conn

Expire_Hash ==
    /\ \E u \in LoginIds :
          /\ ratingHash[u].present /\ ratingHash[u].ttl # NoTTL
          /\ ratingHash' = [ratingHash EXCEPT ![u] = Absent]
    /\ act' = [p |-> 0, op |-> "expire_hash"]
    /\ UNCHANGED <<store, movieHash, recCache, ratingList, pc, session, loc, ops, index>>
    /\ UNCHANGED conn

Expire_List ==
    /\ \E u \in LoginIds :
          /\ ratingList[u].present /\ ratingList[u].ttl # NoTTL
          /\ ratingList' = [ratingList EXCEPT ![u] = Absent]
    /\ act' = [p |-> 0, op |-> "expire_list"]
    /\ UNCHANGED <<store, movieHash, recCache, ratingHash, pc, session, loc, ops, index>>
    /\ UNCHANGED conn

\* ------------------------------------------------------------- faults
\* rate_movie step 2 when the Neo4j read fails: session.run raises, nothing
\* in rate_movie, run_user_application or main catches it, and main's
\* finally block closes the connections.
Rate_AvgFail(p) ==
    /\ pc[p] = "rate_avg"
    /\ act' = [p |-> p, op |-> "raised", user |-> user_id[p], movie_id |-> loc[p].movie_id,
               rating |-> loc[p].rating_val, new_avg |-> None, matched |-> loc[p].matched,
               failed |-> TRUE, outcome |-> "StoreError"]
    /\ loc' = [loc EXCEPT ![p] = NoLoc]
    /\ pc' = [pc EXCEPT ![p] = "closed"]
    /\ UNCHANGED <<store, cache, session, ops>>
    /\ conn' = [conn EXCEPT ![p] = CloseAll(@)]

\* Another client of the Neo4j database removes a Movie node and its
\* relationships; the Redis keys that name the movie stay.
AdminDeleteMovie ==
    /\ \E m \in movieNodes :
          /\ movieNodes' = movieNodes \ {m}
          /\ edges' = {e \in edges : e.movie # m}
    /\ act' = [p |-> 0, op |-> "movie_deleted"]
    /\ UNCHANGED <<userNode, cache, pc, session, loc, ops>>
    /\ UNCHANGED conn

\* The payload of a recommendation entry is damaged: what the key holds is
\* no longer JSON.
Garbage == [text |-> "recs"]
CorruptRec ==
    /\ \E key \in RecKeys :
          /\ recCache[key].present /\ recCache[key].val # Garbage
          /\ recCache' = [recCache EXCEPT ![key].val = Garbage]
    /\ act' = [p |-> 0, op |-> "corrupted"]
    /\ UNCHANGED <<store, movieHash, ratingHash, ratingList, index, pc, session, loc, ops>>
    /\ UNCHANGED conn

\* rate_movie step 3 when Redis fails: r.hset raises, the handler prints a
\* warning and goes on to step 4.
Rate_ProjFail(p) ==
    /\ pc[p] = "rate_proj"
    /\ loc' = [loc EXCEPT ![p].failed = TRUE, ![p].steps = Append(@, "proj")]
    /\ pc' = [pc EXCEPT ![p] = "rate_hash"]
    /\ act' = [p |-> p, op |-> "rate_proj_failed"]
    /\ UNCHANGED <<store, cache, session, ops>>
    /\ UNCHANGED conn

\* create_redis_search_index when FT.CREATE fails: the outer handler prints
\* the error and returns.  The drop before it may have gone through.
Main_IndexFail(p) ==
    /\ pc[p] = "main" /\ ops < MaxOps
    /\ ops' = ops + 1
    /\ index' \in {index, FALSE}
    /\ act' = [p |-> p, op |-> "index", dropped |-> index /\ ~index', failed |-> TRUE,
               outcome |-> "returned"]
    /\ UNCHANGED <<store, movieHash, recCache, ratingHash, ratingList, pc, session, loc>>
    /\ UNCHANGED conn

\* ------------------------------------------------------ specifications
Step(p) ==
    \/ Main_Recs(p) \/ Main_Load(p) \/ Main_App(p) \/ Main_Exit(p)
    \/ GTK_Query(p) \/ GTK_Setex(p)
    \/ User_SetName(p) \/ User_Merge(p)
    \/ App_Fetch(p) \/ Cache_Hash(p) \/ Cache_Expire(p) \/ Cache_List(p) \/ App_Load(p)
    \/ Menu_Top5(p) \/ Menu_Rate(p) \/ Menu_Exit(p)
    \/ Rate_Avg(p) \/ Rate_Proj(p) \/ Rate_Hash(p)

Ttl == Expire_Rec \/ Expire_Hash \/ Expire_List

\* Concurrent runs of main() against one Neo4j and one Redis.
Next == (\E p \in Procs : Step(p)) \/ Ttl
Spec == Init /\ [][Next]_vars

\* One run of main() alone.
NextSolo == Step(1) \/ Ttl
SpecSolo == Init /\ [][NextSolo]_vars

\* One run of main() while the Neo4j read of step 2 may fail and Movie
\* nodes may be removed by others.
NextFaults == NextSolo \/ Rate_AvgFail(1) \/ AdminDeleteMovie
SpecFaults == Init /\ [][NextFaults]_vars

\* The login of run_user_application alone: get_or_create_user, the load of
\* the ratings into Redis, and the way back to the main menu.
Login(p) ==
    \/ Main_App(p) \/ User_SetName(p) \/ User_Merge(p)
    \/ App_Fetch(p) \/ Cache_Hash(p) \/ Cache_Expire(p) \/ Cache_List(p) \/ App_Load(p)
    \/ Menu_Exit(p)

\* Concurrent logins.
NextLogin == (\E p \in Procs : Login(p)) \/ Expire_Hash \/ Expire_List
SpecLogin == Init /\ [][NextLogin]_vars

\* Logins of one run of main() while Movie nodes may be removed by others.
NextReload == Login(1) \/ Expire_Hash \/ Expire_List \/ AdminDeleteMovie
SpecReload == Init /\ [][NextReload]_vars

\* One run of main() with the index and the two searches.
NextSearch == NextSolo \/ Main_Index(1) \/ Main_Demo(1) \/ Menu_Search(1)
SpecSearch == Init /\ [][NextSearch]_vars

\* One run of main() while the payload of a recommendation entry may be
\* damaged.
NextCorrupt == NextSolo \/ CorruptRec
SpecCorrupt == Init /\ [][NextCorrupt]_vars

\* One run of main() while commands sent to Neo4j and Redis may fail.
NextOutage == NextSolo \/ Rate_AvgFail(1) \/ Rate_ProjFail(1) \/ Main_IndexFail(1)
SpecOutage == Init /\ [][NextOutage]_vars

\* One run of main() from its first line, Neo4j reads and the Redis PING
\* free to fail.
NextStart ==
    \/ Start_Driver(1) \/ Start_Redis(1) \/ Start_RedisFail(1)
    \/ NextSolo \/ Rate_AvgFail(1)
SpecStart == InitStart /\ [][NextStart]_vars

\* Every login id has logged in, one session each, after rating movie 1, and
\* has been shown its top 5; no movie was loaded into Redis.
RaceEdges == SeedEdges \cup {[user |-> u, movie |-> 1, rating |-> 6] : u \in LoginIds \ {1}}
RaceUsers == [u \in UserIds |-> IF u \in LoginIds THEN UserNode({NameOr("", u)}) ELSE UserNode(Null)]
RaceUserOf(p) == IF p \in LoginIds THEN p ELSE 1
RaceRecs(u) == CHOOSE recs \in TopKResults(RaceEdges, RaceUsers, u, TopFetchK) : TRUE
InitRace ==
    /\ userNode = RaceUsers
    /\ movieNodes = Movies
    /\ edges = RaceEdges
    /\ movieHash = [m \in Movies |-> Absent]
    /\ recCache = [key \in RecKeys |->
                      IF key[2] = TopFetchK THEN SetEx(Absent, T_rec, Dumps(RaceRecs(key[1])))
                      ELSE Absent]
    /\ ratingHash = [u \in LoginIds |->
                        Expire(HashWrite(Absent, get_user_rated_movies(RaceEdges, u)), T_ratings)]
    /\ ratingList = [u \in LoginIds |->
                        StringKey(Dumps(get_user_rated_movies(RaceEdges, u)), T_ratings)]
    /\ index = FALSE
    /\ pc = [p \in Procs |-> "menu"]
    /\ user_id = [p \in Procs |-> RaceUserOf(p)]
    /\ user_ratings = [p \in Procs |-> get_cached_user_ratings(ratingHash, RaceUserOf(p))]
    /\ last_recommendations =
          [p \in Procs |-> WithTitles(Top5(RaceRecs(RaceUserOf(p)), user_ratings[p]), movieHash)]
    /\ loc = [p \in Procs |-> NoLoc]
    /\ conn = [p \in Procs |-> BothOpen]
    /\ act = [p |-> 0, op |-> "init"]
    /\ ops = 0

\* Concurrent rate_movie calls of the sessions.
NextRace == \E p \in Procs : Menu_Rate(p) \/ Rate_Avg(p) \/ Rate_Proj(p) \/ Rate_Hash(p)
SpecRace == InitRace /\ [][NextRace]_vars

\* ================================================================ claims
\* What a step handed to its caller is in act', so a property of one
\* operation is a property of the step that ends it.

MovieIdsOf(list) == {StrOf(list[i].movie_id) : i \in 1..Len(list)}

\* C1: a GetTopK call that found no entry makes exactly one Neo4j query and
\* one cache write, which stores the returned list under TTL T_rec; a call
\* that found an entry makes no query and no write and returns the stored
\* list, an empty one included.
C1_CacheAside ==
    [][act'.op \in {"show_recs", "top5"} =>
          LET key == <<act'.user, act'.k>>
          IN  IF act'.saw
              THEN /\ act'.nq = 0 /\ act'.nw = 0
                   /\ recCache[key].present
                   /\ recCache[key].val = Dumps(act'.all_recs)
                   /\ recCache' = recCache
              ELSE /\ act'.nq = 1 /\ act'.nw = 1
                   /\ recCache'[key] = StringKey(Dumps(act'.all_recs), T_rec)]_vars

\* C1 witness: a call answered from a cached empty list, without a query.
C1_HitOnEmptyList ==
    /\ act.op = "show_recs" /\ act.saw
    /\ act.all_recs = <<>> /\ act.nq = 0

\* C2: the list the top-5 flow returns holds no movie that mapping (a) of the
\* user holds at that moment.
C2_Top5ExcludesCachedRatings ==
    [][act'.op = "top5" =>
          MovieIdsOf(act'.list) \cap DOMAIN get_cached_user_ratings(ratingHash', act'.user) = {}]_vars

\* C3: neither the show-cached-recommendations action nor the top-5 flow
\* returns a movie that a present rating hash of the user names.
C3_NoRatedMovieReturned ==
    [][act'.op \in {"show_recs", "top5"} =>
          \A i \in 1..Len(act'.list) :
              ~(/\ ratingHash'[act'.user].present
                /\ StrOf(act'.list[i].movie_id) \in DOMAIN ratingHash'[act'.user].fields)]_vars

\* C4: when rate_movie returns, GetRatings(u) maps the movie to the rating
\* just submitted.
C4_RatingVisibleAtOnce ==
    [][act'.op = "rated" =>
          LET ratings == get_cached_user_ratings(ratingHash', act'.user)
          IN  /\ act'.movie_id \in DOMAIN ratings
              /\ ratings[act'.movie_id] = act'.rating]_vars

\* C4 witness: rate_movie has returned while list (b) is present and does
\* not hold the new pair.
C4_ListStillOld ==
    /\ act.op = "rated"
    /\ ratingList[act.user].present
    /\ \A i \in 1..Len(Loads(ratingList[act.user].val)) :
          LET x == Loads(ratingList[act.user].val)[i]
          IN  ~(x.movie_id = act.movie_id /\ x.rating = act.rating)

\* C5: the store never holds two RATED edges for one (user, movie); after an
\* upsert the pair's edge carries the submitted rating, every other edge is
\* as before, and resubmitting the rating an edge already has changes nothing.
C5_OneEdgePerPair ==
    [][/\ \A e1, e2 \in edges' : e1.user = e2.user /\ e1.movie = e2.movie => e1 = e2
       /\ (act'.op = "rate" /\ act'.result = "upsert") =>
            LET new == [user |-> act'.user, movie |-> IntOf(act'.movie_id),
                        rating |-> act'.rating_in.n]
                other(E) == {e \in E : ~(e.user = new.user /\ e.movie = new.movie)}
            IN  /\ new \in edges'
                /\ other(edges') = other(edges)
                /\ (new \in edges => edges' = edges)]_vars

\* C5 witness: the same (user, movie, rating) submitted again.
C5_SameRatingAgain ==
    /\ act.op = "rate" /\ act.result = "upsert"
    /\ act.movie_id \in DOMAIN user_ratings[act.p]
    /\ user_ratings[act.p][act.movie_id] = act.rating_in.n

\* C6: with no concurrent writer, the average rate_movie reports and the
\* avg_rating it stores are the mean of the movie's edges after the upsert,
\* the user's edge counted once with the new rating.
C6_AverageIsMean ==
    [][(act'.op = "rated" /\ act'.outcome = "new_average") =>
          LET m == IntOf(act'.movie_id)
              rows == {e \in edges' : e.movie = m}
              own == {e \in rows : e.user = act'.user}
          IN  /\ own = {[user |-> act'.user, movie |-> m, rating |-> act'.rating]}
              /\ act'.new_avg.num * Cardinality(rows) = act'.new_avg.den * SumRatings(rows)
              /\ HGet(movieHash'[m], "avg_rating") = FloatRepr(act'.new_avg)]_vars

\* C6 witness: a rating has been recorded and a new average reported for a
\* movie that another user has rated as well.
C6_NewAverageReported ==
    /\ act.op = "rated" /\ act.outcome = "new_average"
    /\ Cardinality({e \in edges : e.movie = IntOf(act.movie_id)}) >= 2

\* C7: rate_movie given a number outside [0.5, 5.0] returns to the menu and
\* leaves the edges, the movie hashes, mapping (a), list (b) and the rating
\* dict as they were; no run is past the check with such a rating.
C7_OutOfRangeRejected ==
    [][/\ (/\ act'.op = "rate" /\ act'.rating_in.kind = "num"
           /\ (act'.rating_in.n < MinRating \/ act'.rating_in.n > MaxRating)) =>
             /\ pc'[act'.p] = "menu"
             /\ UNCHANGED <<edges, movieHash, ratingHash, ratingList, user_ratings>>
       /\ \A p \in Procs :
             pc'[p] \in {"rate_avg", "rate_proj", "rate_hash"} =>
                 (MinRating <= loc'[p].rating_val /\ loc'[p].rating_val <= MaxRating)]_vars

\* C7 witness: a listed movie was chosen and an out-of-range number typed.
C7_OutOfRangeTyped ==
    /\ act.op = "rate" /\ act.result = "bad_rating"
    /\ act.rating_in.kind = "num"
    /\ last_recommendations[act.p] # <<>>

\* C8: rate_movie for a user or movie that has no node in Neo4j changes
\* neither the edges, the movie's hash, mapping (a) nor the rating dict.
C8_UnknownReferenceRejected ==
    [][(act'.op = "rated" /\ ~act'.matched) =>
          UNCHANGED <<edges, movieHash, ratingHash, user_ratings>>]_vars

\* C9: a rate_movie call that wrote its edge and whose step 2 yields no
\* average ends with the could-not-recompute outcome, the movie's hash
\* untouched by it and the edge of step 1 in the store.
C9_RecomputeFailedOutcome ==
    [][(/\ act'.op \in {"rated", "raised"} /\ act'.new_avg = None
        /\ act'.matched /\ IntOf(act'.movie_id) \in movieNodes') =>
          /\ act'.outcome = "RecomputeFailed"
          /\ UNCHANGED movieHash
          /\ [user |-> act'.user, movie |-> IntOf(act'.movie_id), rating |-> act'.rating] \in edges']_vars

\* C10: when cache_user_rated_movies returns, a mapping (a) that is present
\* holds exactly the pairs of the list it was given, and so does list (b).
PairsOfHash(key) ==
    {<<f, FloatOf(HGetAll(key)[f])>> : f \in DOMAIN HGetAll(key)}
PairsOfList(list) == {<<list[i].movie_id, list[i].rating>> : i \in 1..Len(list)}

C10_MappingEqualsList ==
    [][(/\ act'.op = "cached"
        /\ ratingHash'[act'.user].present
        /\ ratingList'[act'.user].present) =>
              /\ PairsOfHash(ratingHash'[act'.user]) = PairsOfList(act'.rated_movies)
              /\ PairsOfHash(ratingHash'[act'.user]) = PairsOfList(Loads(ratingList'[act'.user].val))]_vars

\* C11: when cache_user_rated_movies returns from an empty list, mapping (a)
\* of the user is absent and list (b) is present, holds the serialized empty
\* list and carries TTL T_ratings.
C11_EmptyListClearsMapping ==
    [][(act'.op = "cached" /\ act'.rated_movies = <<>>) =>
          /\ ~ratingHash'[act'.user].present
          /\ ratingList'[act'.user].present
          /\ ratingList'[act'.user].val = Dumps(<<>>)
          /\ ratingList'[act'.user].ttl = T_ratings]_vars

\* C11 witness: the call returned from an empty list and had found a
\* mapping (a) in the cache.
C11_MappingWasPresent ==
    /\ act.op = "cached" /\ act.rated_movies = <<>>
    /\ act.had

\* C12: a GetTopK call for (u, k) is a hit only on the entry of (u, k) itself,
\* and no call, hit or miss, changes the entry of another k or another user.
C12_EntriesPerK ==
    [][act'.op \in {"show_recs", "top5"} =>
          LET key == <<act'.user, act'.k>>
          IN  /\ \A other \in RecKeys \ {key} : recCache'[other] = recCache[other]
              /\ (act'.saw /\ act'.nq = 0) =>
                    /\ recCache[key].present
                    /\ Loads(recCache[key].val) = act'.all_recs]_vars

\* C12 witness: a call missed while the entry of another k of the same user
\* was in the cache.
C12_MissBesideOtherK ==
    /\ act.op \in {"show_recs", "top5"} /\ ~act.saw /\ act.nq = 1
    /\ \E k2 \in Ks \ {act.k} : recCache[<<act.user, k2>>].present

\* C13: every entity of a user-context search result carries seen = whether
\* mapping (a) of the user, read at that call, holds its id, and the rating
\* mapping (a) holds for it.
C13_JoinReadsRatingCache ==
    [][(act'.op = "search" /\ act'.result = "shown") =>
          LET ratings == get_cached_user_ratings(ratingHash', act'.user)
          IN  \A i \in 1..Len(act'.docs) :
                LET d == act'.docs[i]
                IN  /\ d.seen = (d.movie_id \in DOMAIN ratings)
                    /\ d.seen => d.user_rating = ratings[d.movie_id]]_vars

\* C14: the query string a search hands to the engine is the string typed.
C14_QueryPassedThrough ==
    [][(act'.op \in {"search", "demo"} /\ act'.result \in {"shown", "no_match", "no_results"}) =>
          act'.query_str = act'.term]_vars

\* C15: the demo search returns min(max_results, total) entities, with
\* max_results the requested number brought into 1..10, and reports as total
\* the number of all matching entities.
C15_PageAndTotal ==
    [][(act'.op = "demo" /\ act'.result \in {"shown", "no_results"}) =>
          /\ act'.max_results >= MinMaxResults /\ act'.max_results <= MaxMaxResults
          /\ (act'.max_in.kind = "num" /\ act'.max_in.n > MaxMaxResults) => act'.max_results = MaxMaxResults
          /\ (act'.max_in.kind = "num" /\ act'.max_in.n < MinMaxResults) => act'.max_results = MinMaxResults
          /\ Len(act'.docs) = Min(act'.max_results, act'.total)
          /\ act'.total = Cardinality(Hits(act'.term, movieHash'))
          /\ \A i \in 1..Len(act'.docs) : act'.docs[i] \in Hits(act'.term, movieHash')
          /\ \A i, j \in 1..Len(act'.docs) : i # j => act'.docs[i] # act'.docs[j]]_vars

\* C15 witness: one entity returned of two that match.
C15_OneOfTwo ==
    /\ act.op = "demo" /\ act.result = "shown"
    /\ act.max_results = 1 /\ act.total = 2 /\ Len(act.docs) = 1

\* C16: when load_movies_from_neo4j_into_redis returns, the movies that have a
\* hash in Redis are exactly the movies the scan of Neo4j returned.
C16_LoadReplacesRecords ==
    [][act'.op = "load" =>
          {m \in Movies : movieHash'[m].present} = movieNodes']_vars

\* C17: a get_or_create_user call that found no node ends without an error
\* and with a node for the user id; the node carries the call's name when
\* the call created it and is left as it was when another call had created
\* it meanwhile.
C17_MergeKeepsCreatorsName ==
    [][act'.op = "merge" =>
          LET u == act'.user
          IN  /\ pc'[act'.p] = "app_fetch"
              /\ userNode'[u].exists
              /\ IF userNode[u].exists THEN userNode'[u] = userNode[u]
                 ELSE userNode'[u].name = {act'.name}
              /\ \A o \in UserIds \ {u} : userNode'[o] = userNode[o]]_vars

\* C17 witness: the MERGE of a call found the node another call had created
\* under another name.
C17_LostTheRace ==
    /\ act.op = "merge"
    /\ userNode[act.user].exists
    /\ userNode[act.user].name # {act.name}

\* C18: a user name that is stored is never changed.
C18_NameNeverChanged ==
    [][\A u \in UserIds :
          (userNode[u].exists /\ userNode[u].name # Null) => userNode'[u] = userNode[u]]_vars

\* C19: a GetTopK call that found an entry it could not parse makes one
\* Neo4j query, writes the fresh list over the entry under TTL T_rec and
\* returns that list.
C19_MalformedIsMiss ==
    [][(act'.op \in {"show_recs", "top5"} /\ act'.saw /\ act'.nq > 0) =>
          LET key == <<act'.user, act'.k>>
          IN  /\ act'.nq = 1 /\ act'.nw = 1
              /\ act'.all_recs \in TopKResults(edges', userNode', act'.user, act'.k)
              /\ recCache'[key] = StringKey(Dumps(act'.all_recs), T_rec)
              /\ Loads(recCache'[key].val) = act'.all_recs]_vars

\* C19 witness: a call that found an entry and still queried Neo4j has
\* returned.
C19_GarbageFound ==
    /\ act.op \in {"show_recs", "top5"} /\ act.saw /\ act.nq = 1

\* C20: an operation during which a Neo4j or Redis command failed hands an
\* error outcome to its caller.
C20_FailuresReachCaller ==
    [][(act'.op \in {"index", "rated", "raised"} /\ act'.failed) =>
          act'.outcome \in {"StoreError", "CacheError"}]_vars

\* C21: a run of main() that has ended, by the exit choice or by an
\* exception, holds no open connection.
C21_ConnectionsClosedAtExit ==
    \A p \in Procs :
        pc[p] \in {"closed", "aborted"} => \A f \in DOMAIN conn[p] : conn[p][f] # "open"

\* C22: the steps of every rate_movie call are taken in the order upsert,
\* average, projection, mapping (a), the projection left out when there is
\* no average: the projection is written only from an average already read,
\* and mapping (a) only after that.
RateOrders == {<<"upsert", "avg", "proj", "hash">>, <<"upsert", "avg", "hash">>}
C22_StepsInOrder ==
    [][/\ \A p \in Procs :
            LET s == loc'[p].steps
            IN  \E o \in RateOrders : Len(s) <= Len(o) /\ SubSeq(o, 1, Len(s)) = s
       /\ act'.op = "rate_proj" => loc[act'.p].new_avg # None
       /\ act'.op = "rated" => act'.steps \in RateOrders]_vars

\* C22 witness: a rate_movie call has gone through all four steps.
C22_AllFourSteps ==
    /\ act.op = "rated"
    /\ act.steps = <<"upsert", "avg", "proj", "hash">>

\* C23: of the Redis keys, a rate_movie call changes only the avg_rating
\* field of the rated movie's hash and the rated movie's entry in mapping (a)
\* of the user; every other field, hash, entry, list (b), the other users'
\* keys and the recommendation entries stay as they were.
SameBut(key2, key1, f) ==
    /\ DOMAIN HGetAll(key2) \ {f} = DOMAIN HGetAll(key1) \ {f}
    /\ \A g \in DOMAIN HGetAll(key1) \ {f} : HGetAll(key2)[g] = HGetAll(key1)[g]
C23_RateTouchesTwoFields ==
    [][/\ act'.op \in {"rate", "rate_avg"} =>
             UNCHANGED <<movieHash, recCache, ratingHash, ratingList, index>>
       /\ act'.op = "rate_proj" =>
             LET e == IntOf(loc[act'.p].movie_id)
             IN  /\ UNCHANGED <<recCache, ratingHash, ratingList, index>>
                 /\ \A m \in Movies \ {e} : movieHash'[m] = movieHash[m]
                 /\ SameBut(movieHash'[e], movieHash[e], "avg_rating")
       /\ act'.op = "rated" =>
             /\ UNCHANGED <<movieHash, recCache, ratingList, index>>
             /\ \A u \in LoginIds \ {act'.user} : ratingHash'[u] = ratingHash[u]
             /\ SameBut(ratingHash'[act'.user], ratingHash[act'.user], act'.movie_id)]_vars

\* C23 witness: a rating was recorded while the movie's hash held its loaded
\* fields, mapping (a) another entry and list (b) the list of the login.
C23_OtherEntriesPresent ==
    /\ act.op = "rated" /\ "proj" \in {act.steps[i] : i \in 1..Len(act.steps)}
    /\ "title" \in DOMAIN HGetAll(movieHash[IntOf(act.movie_id)])
    /\ DOMAIN HGetAll(ratingHash[act.user]) \ {act.movie_id} # {}
    /\ ratingList[act.user].present

\* C24: when cache_user_rated_movies or rate_movie returns, a mapping (a) of
\* the user that is present carries a TTL, of at most T_ratings.
C24_MappingHasTtl ==
    [][(act'.op \in {"cached", "rated"} /\ ratingHash'[act'.user].present) =>
          /\ ratingHash'[act'.user].ttl # NoTTL
          /\ ratingHash'[act'.user].ttl <= T_ratings]_vars

\* C25: whenever no rate_movie call is under way, the avg_rating a movie's
\* hash holds is the average of the movie's RATED edges.
C25_ProjectionIsAverage ==
    (\A p \in Procs : pc[p] = "menu") =>
        \A m \in Movies :
            HGet(movieHash[m], "avg_rating") # None =>
                HGet(movieHash[m], "avg_rating") = FloatRepr(AvgRating(edges, m))

\* C26: the name get_or_create_user returns after its MERGE or its SET is the
\* name the User node holds when the call returns.
C26_ReturnedNameIsStored ==
    [][act'.op \in {"merge", "setname"} => userNode'[act'.user].name = {act'.name}]_vars

\* C27: a rating that rate_movie submits is for a movie of the session's
\* last_recommendations that user_ratings does not hold at that moment, and
\* rate_movie with an empty last_recommendations submits nothing.
C27_RatesUnratedOfLastTop5 ==
    [][act'.op = "rate" =>
          LET p == act'.p
              recs == last_recommendations[p]
          IN  /\ act'.result = "upsert" =>
                    /\ \E i \in 1..Len(recs) : StrOf(recs[i].movie_id) = act'.movie_id
                    /\ act'.movie_id \notin DOMAIN user_ratings[p]
              /\ recs = <<>> => (act'.result = "no_recs" /\ edges' = edges)]_vars

====
